---- MODULE Spec2Model ----
(***************************************************************************)
(* Model of app/server.go (the version with the -directory flag and the    *)
(* GET /files/ route): the accept loop, the per-connection worker          *)
(* handleConnection, the request parser connectionToRequest and the        *)
(* response serializer response.WriteToConn.                               *)
(*                                                                         *)
(* A Go string is modelled as the sequence of its bytes.  A byte is a      *)
(* one-character string for printable ASCII, "\r" and "\n" for CR and LF,  *)
(* and a name for the other bytes used here ("NUL", "C3", "A9").           *)
(***************************************************************************)
EXTENDS Integers, Sequences, FiniteSets, TLC

VARIABLES
    directory,  \* the package variable directory (-directory flag)
    files,      \* the file system: full path -> file bytes
    pc,         \* per connection: position of its worker
    req,        \* per connection: the request returned by connectionToRequest
    res,        \* per connection: the response built by handleConnection
    stage,      \* per connection: position inside WriteToConn
    pending,    \* per connection: header names WriteToConn has still to range over
    calls,      \* per connection: the arguments of the conn.Write calls issued so far
    wire,       \* per connection: the bytes the peer has received
    werr,       \* per connection: index in calls of the conn.Write that returned an error, 0 if none
    count,      \* per connection: how often the worker read, parsed, dispatched, serialized
    fnIn,       \* the input of the function applied last (ParseSpec, RouteSpec)
    fnOut       \* its result

vars == <<directory, files, pc, req, res, stage, pending, calls, wire, werr,
          count, fnIn, fnOut>>

connVars == <<pc, req, res, stage, pending, calls, wire, werr, count>>

(***************************************************************************)
(* Bounds of the model.                                                    *)
(***************************************************************************)
\* number of accepted connections (the accept loop itself is unbounded)
NConn == 2
\* size of the read buffer; the source allocates 32<<8 bytes, the model a
\* shorter buffer that the received message is copied into and that keeps
\* its zero padding
BufSize == 64
\* longest raw start line handed to parseStartline
MaxStart == 5
\* most header lines in a generated header section
MaxLines == 2
\* longest generated content handed to responseContent
MaxContent == 3

Conns == 1..NConn

(***************************************************************************)
(* Bytes and strings.                                                      *)
(***************************************************************************)
\* the bytes of an ASCII string literal
B(s) == [i \in 1..Len(s) |-> SubSeq(s, i, i)]

NUL == "NUL"
CRLF == <<"\r", "\n">>
SP == <<" ">>
ColonSp == <<":", " ">>

\* n copies of byte b
Rep(b, n) == [i \in 1..n |-> b]

\* does sep occur in s at position i
OccursAt(s, sep, i) ==
    /\ i >= 1
    /\ i + Len(sep) - 1 <= Len(s)
    /\ \A j \in 1..Len(sep) : s[i + j - 1] = sep[j]

\* strings.Index + 1: the position of the first occurrence of sep in s, 0 if none
Index(s, sep) ==
    LET hits == {i \in 1..Len(s) : OccursAt(s, sep, i)}
    IN  IF hits = {} THEN 0 ELSE CHOOSE i \in hits : \A j \in hits : i <= j

\* strings.Split(s, sep) for a non-empty sep
RECURSIVE Split(_, _)
Split(s, sep) ==
    LET i == Index(s, sep)
    IN  IF i = 0 THEN <<s>>
        ELSE <<SubSeq(s, 1, i - 1)>> \o Split(SubSeq(s, i + Len(sep), Len(s)), sep)

\* strings.CutPrefix(s, prefix)
CutPrefix(s, prefix) ==
    IF OccursAt(s, prefix, 1)
    THEN [after |-> SubSeq(s, Len(prefix) + 1, Len(s)), found |-> TRUE]
    ELSE [after |-> s, found |-> FALSE]

Digit(d) == SubSeq("0123456789", d + 1, d + 1)

\* fmt.Sprint(n) for an int n >= 0: its decimal digits
RECURSIVE Itoa(_)
Itoa(n) == IF n < 10 THEN <<Digit(n)>> ELSE Itoa(n \div 10) \o <<Digit(n % 10)>>

(***************************************************************************)
(* Program constants.                                                      *)
(***************************************************************************)
ResponseOK == B("HTTP/1.1 200 OK")
ResponseNotFound == B("HTTP/1.1 404 Not Found")
TypeTextPlain == B("text/plain")
TypeOctetStream == B("application/octet-stream")

\* the zero values request{} and response{}; a nil map reads as the empty map
NoHeaders == [k \in {} |-> <<>>]
ZeroRequest == [method |-> <<>>, path |-> <<>>, version |-> <<>>, headers |-> NoHeaders]
ZeroResponse == [status |-> <<>>, headers |-> NoHeaders, content |-> <<>>]

\* m[k] = v on a Go map
MapSet(m, k, v) == [x \in DOMAIN m \cup {k} |-> IF x = k THEN v ELSE m[x]]

\* m[k] on a Go map of strings: the zero value "" for a missing key
MapGet(m, k) == IF k \in DOMAIN m THEN m[k] ELSE <<>>

(***************************************************************************)
(* The request parser.                                                     *)
(***************************************************************************)
\* conn.Read into make([]byte, BufSize): the message's first BufSize bytes,
\* the rest of the buffer left zero
ReadInto(msg) ==
    [i \in 1..BufSize |-> IF i <= Len(msg) THEN msg[i] ELSE NUL]

\* parseStartline that only rejects a start line of fewer than three tokens
parseStartlineAtLeast3(startLine, r) ==
    LET startLines == Split(startLine, SP)
    IN  IF Len(startLines) < 3
        THEN [err |-> TRUE, req |-> r]
        ELSE [err |-> FALSE,
              req |-> [r EXCEPT !.method = startLines[1],
                                !.path = startLines[2],
                                !.version = startLines[3]]]

\* parseStartline: [err, req]
parseStartline(startLine, r) ==
    LET startLines == Split(startLine, SP)
    IN  IF Len(startLines) # 3
        THEN [err |-> TRUE, req |-> r]
        ELSE [err |-> FALSE,
              req |-> [r EXCEPT !.method = startLines[1],
                                !.path = startLines[2],
                                !.version = startLines[3]]]

\* the loop body of parseHeaderLines on one line
parseHeaderLine(line, h) ==
    LET splittedLine == Split(line, ColonSp)
    IN  IF Len(splittedLine) = 2
        THEN MapSet(h, splittedLine[1], splittedLine[2])
        ELSE h

RECURSIVE parseHeaderLoop(_, _)
parseHeaderLoop(headerLines, h) ==
    IF headerLines = <<>> THEN h
    ELSE parseHeaderLoop(Tail(headerLines), parseHeaderLine(Head(headerLines), h))

\* parseHeaderLines: the request with its header map filled
parseHeaderLines(headerLines, r) ==
    [r EXCEPT !.headers = parseHeaderLoop(headerLines, r.headers)]

\* connectionToRequest after a conn.Read that filled buf: [err, req]
parseBuffer(buf) ==
    LET parts == Split(buf, CRLF)
    IN  IF Len(parts) = 0
        THEN [err |-> TRUE, req |-> ZeroRequest]
        ELSE LET startLine == parts[1]
                 headerLines == Tail(parts)
                 sl == parseStartline(startLine, ZeroRequest)
             IN  IF sl.err
                 THEN [err |-> TRUE, req |-> sl.req]
                 ELSE [err |-> FALSE, req |-> parseHeaderLines(headerLines, sl.req)]

\* connectionToRequest on a connection whose Read delivers msg
connectionToRequest(msg) == parseBuffer(ReadInto(msg))

(***************************************************************************)
(* The router and the response helper.                                     *)
(***************************************************************************)
IsGet(r) == r.method = B("GET")

IsPost(r) == r.method = B("POST")

\* os.ReadFile(path): [err, bytes]
ReadFile(path) ==
    IF path \in DOMAIN files
    THEN [err |-> FALSE, bytes |-> files[path]]
    ELSE [err |-> TRUE, bytes |-> <<>>]

\* responseContent that counts characters instead of bytes
responseContentRunes(rs, content, contentType) ==
    LET runes == Cardinality({i \in 1..Len(content) : content[i] # "A9"})
        h1 == MapSet(rs.headers, B("Content-Type"), contentType)
        h2 == MapSet(h1, B("Content-Length"), Itoa(runes))
    IN  [status |-> ResponseOK, headers |-> h2, content |-> content]

\* responseContent: the response as the call leaves it
responseContent(rs, content, contentType) ==
    LET h1 == MapSet(rs.headers, B("Content-Type"), contentType)
        h2 == MapSet(h1, B("Content-Length"), Itoa(Len(content)))
    IN  [status |-> ResponseOK, headers |-> h2, content |-> content]

\* handleGetRequest that matches the root path by prefix
handleGetRequestPrefixRoot(r, rs) ==
    IF CutPrefix(r.path, B("/")).found
    THEN [rs EXCEPT !.status = ResponseOK]
    ELSE [rs EXCEPT !.status = ResponseNotFound]

\* handleGetRequest: the response as the call leaves it
handleGetRequest(r, rs) ==
    LET echo == CutPrefix(r.path, B("/echo/"))
        file == CutPrefix(r.path, B("/files/"))
        read == ReadFile(directory \o B("/") \o file.after)
    IN  IF r.path = B("/") THEN [rs EXCEPT !.status = ResponseOK]
        ELSE IF r.path = B("/user-agent")
        THEN responseContent(rs, MapGet(r.headers, B("User-Agent")), TypeTextPlain)
        ELSE IF echo.found THEN responseContent(rs, echo.after, TypeTextPlain)
        ELSE IF file.found /\ ~read.err
        THEN responseContent(rs, read.bytes, TypeOctetStream)
        ELSE [rs EXCEPT !.status = ResponseNotFound]

\* handleConnection, from res := response{} to the end of its switch
route(r) ==
    IF IsGet(r) THEN handleGetRequest(r, ZeroResponse)
    ELSE [ZeroResponse EXCEPT !.status = ResponseNotFound]

(***************************************************************************)
(* The response serializer: the argument of each conn.Write.               *)
(***************************************************************************)
StatusChunk(rs) == rs.status \o CRLF

HeaderChunk(rs, k) == k \o ColonSp \o rs.headers[k] \o CRLF

BlankChunk == CRLF

ContentChunk(rs) == rs.content \o CRLF

(***************************************************************************)
(* The connection workers.                                                 *)
(*   pc: "idle"   not accepted yet                                         *)
(*       "read"   in conn.Read (connectionToRequest)                       *)
(*       "write"  in res.WriteToConn, before the conn.Write of stage       *)
(*       "closed" handleConnection returned and its deferred conn.Close    *)
(*                ran: the worker is gone                                  *)
(*   stage: "status", "headers", "content": the conn.Write that is next    *)
(* A step of a worker runs from one blocking call on its connection to the *)
(* next; the return of handleConnection and the deferred Close end the     *)
(* step of the call they follow.                                           *)
(***************************************************************************)
\* the messages a peer sends in the worker specification
Messages ==
    { B("GET / HTTP/1.1") \o CRLF \o CRLF,
      B("GET /echo/abc HTTP/1.1") \o CRLF \o CRLF,
      B("GET /") }

\* what a failing conn.Write(chunk) may have delivered: nothing, or all but
\* the last byte
Partials(chunk) == {<<>>, SubSeq(chunk, 1, Len(chunk) - 1)}

\* the accept loop: go handleConnection(conn)
Accept(c) ==
    /\ pc[c] = "idle"
    /\ pc' = [pc EXCEPT ![c] = "read"]
    /\ UNCHANGED <<directory, files, req, res, stage, pending, calls, wire, werr,
                   count, fnIn, fnOut>>

\* a handleConnection that closes the connection at its end only, not on
\* the returns after an error
ReturnNoDefer(err) == IF err THEN "exited" ELSE "closed"

\* where a return of handleConnection leaves the worker: the deferred
\* conn.Close has run, after an error or not
Return(err) == "closed"

\* conn.Read returns an error: connectionToRequest and handleConnection return
ReadError(c) ==
    /\ pc[c] = "read"
    /\ pc' = [pc EXCEPT ![c] = Return(TRUE)]
    /\ count' = [count EXCEPT ![c]["read"] = @ + 1]
    /\ UNCHANGED <<directory, files, req, res, stage, pending, calls, wire, werr,
                   fnIn, fnOut>>

\* a handleConnection that answers a request it could not parse
OnParseErrorRespond(c, parsed) ==
    /\ pc' = [pc EXCEPT ![c] = "write"]
    /\ req' = [req EXCEPT ![c] = parsed.req]
    /\ res' = [res EXCEPT ![c] = [ZeroResponse EXCEPT !.status = ResponseNotFound]]
    /\ stage' = [stage EXCEPT ![c] = "status"]
    /\ count' = [count EXCEPT ![c]["read"] = @ + 1, ![c]["parse"] = @ + 1,
                              ![c]["serialize"] = @ + 1]

\* handleConnection when connectionToRequest returned a parse error
OnParseError(c, parsed) ==
    /\ pc' = [pc EXCEPT ![c] = Return(TRUE)]
    /\ req' = [req EXCEPT ![c] = parsed.req]
    /\ count' = [count EXCEPT ![c]["read"] = @ + 1, ![c]["parse"] = @ + 1]
    /\ UNCHANGED <<res, stage>>

\* handleConnection when connectionToRequest returned a request: the switch,
\* then the call of res.WriteToConn
OnRequest(c, parsed) ==
    /\ pc' = [pc EXCEPT ![c] = "write"]
    /\ req' = [req EXCEPT ![c] = parsed.req]
    /\ res' = [res EXCEPT ![c] = route(parsed.req)]
    /\ stage' = [stage EXCEPT ![c] = "status"]
    /\ count' = [count EXCEPT ![c]["read"] = @ + 1, ![c]["parse"] = @ + 1,
                              ![c]["dispatch"] = @ + 1, ![c]["serialize"] = @ + 1]

\* conn.Read returns a message: parse it, dispatch it, enter WriteToConn
ReadRequest(c) ==
    /\ pc[c] = "read"
    /\ \E msg \in Messages :
         LET parsed == connectionToRequest(msg)
         IN  IF parsed.err THEN OnParseError(c, parsed) ELSE OnRequest(c, parsed)
    /\ UNCHANGED <<directory, files, pending, calls, wire, werr, fnIn, fnOut>>

\* a WriteToConn that goes on after a conn.Write error
WriteFailedGoOn(c, chunk, delivered, nextStage, nextPending, last) ==
    /\ calls' = [calls EXCEPT ![c] = Append(@, chunk)]
    /\ wire' = [wire EXCEPT ![c] = @ \o delivered]
    /\ werr' = [werr EXCEPT ![c] = Len(calls[c]) + 1]
    /\ stage' = [stage EXCEPT ![c] = nextStage]
    /\ pending' = [pending EXCEPT ![c] = nextPending]
    /\ pc' = [pc EXCEPT ![c] = IF last THEN Return(TRUE) ELSE "write"]

\* conn.Write(chunk) returns an error: WriteToConn returns it, handleConnection returns
WriteFailed(c, chunk, delivered, nextStage, nextPending, last) ==
    /\ calls' = [calls EXCEPT ![c] = Append(@, chunk)]
    /\ wire' = [wire EXCEPT ![c] = @ \o delivered]
    /\ werr' = [werr EXCEPT ![c] = Len(calls[c]) + 1]
    /\ pc' = [pc EXCEPT ![c] = Return(TRUE)]
    /\ UNCHANGED <<stage, pending>>

\* conn.Write(chunk) returns nil: WriteToConn goes on to its next write, or
\* returns nil after its last one and handleConnection returns
WriteDone(c, chunk, nextStage, nextPending, last) ==
    /\ calls' = [calls EXCEPT ![c] = Append(@, chunk)]
    /\ wire' = [wire EXCEPT ![c] = @ \o chunk]
    /\ stage' = [stage EXCEPT ![c] = nextStage]
    /\ pending' = [pending EXCEPT ![c] = nextPending]
    /\ pc' = [pc EXCEPT ![c] = IF last THEN Return(FALSE) ELSE "write"]
    /\ UNCHANGED werr

\* one conn.Write of WriteToConn, with either outcome
ConnWrite(c, chunk, nextStage, nextPending, last) ==
    /\ \/ WriteDone(c, chunk, nextStage, nextPending, last)
       \/ \E delivered \in Partials(chunk) :
            WriteFailed(c, chunk, delivered, nextStage, nextPending, last)
    /\ UNCHANGED <<directory, files, req, res, count, fnIn, fnOut>>

\* WriteToConn: conn.Write of the status line
WriteStatus(c) ==
    /\ pc[c] = "write" /\ stage[c] = "status"
    /\ ConnWrite(c, StatusChunk(res[c]), "headers", DOMAIN res[c].headers, FALSE)

\* WriteToConn: conn.Write of one header, in the order the map range yields
WriteHeader(c) ==
    /\ pc[c] = "write" /\ stage[c] = "headers"
    /\ \E k \in pending[c] :
         ConnWrite(c, HeaderChunk(res[c], k), "headers", pending[c] \ {k}, FALSE)

\* WriteToConn: conn.Write of the blank line, the last write of an empty content
WriteBlank(c) ==
    /\ pc[c] = "write" /\ stage[c] = "headers" /\ pending[c] = {}
    /\ ConnWrite(c, BlankChunk, "content", {}, ~(Len(res[c].content) > 0))

\* WriteToConn: conn.Write of the content
WriteContent(c) ==
    /\ pc[c] = "write" /\ stage[c] = "content"
    /\ ConnWrite(c, ContentChunk(res[c]), "content", {}, TRUE)

\* the steps of a worker after its conn.Read returned a request
AfterRead(c) ==
    WriteStatus(c) \/ WriteHeader(c) \/ WriteBlank(c) \/ WriteContent(c)

NoCount == [what \in {"read", "parse", "dispatch", "serialize"} |-> 0]

NoCall == [fn |-> "none", arg |-> <<>>]

InitConns ==
    /\ pc = [c \in Conns |-> "idle"]
    /\ req = [c \in Conns |-> ZeroRequest]
    /\ res = [c \in Conns |-> ZeroResponse]
    /\ stage = [c \in Conns |-> "status"]
    /\ pending = [c \in Conns |-> {}]
    /\ calls = [c \in Conns |-> <<>>]
    /\ wire = [c \in Conns |-> <<>>]
    /\ werr = [c \in Conns |-> 0]
    /\ count = [c \in Conns |-> NoCount]

\* the flag's default: -directory ""
DefaultDirectory == <<>>

NoFiles == [p \in {} |-> <<>>]

Init ==
    /\ directory = DefaultDirectory
    /\ files = NoFiles
    /\ InitConns
    /\ fnIn = NoCall
    /\ fnOut = NoCall

Next ==
    \E c \in Conns :
        \/ Accept(c)
        \/ ReadError(c)
        \/ ReadRequest(c)
        \/ WriteStatus(c)
        \/ WriteHeader(c)
        \/ WriteBlank(c)
        \/ WriteContent(c)

Spec == Init /\ [][Next]_vars

\* every conn.Write returns; a conn.Read may block for ever
FairSpec == Spec /\ \A c \in Conns : WF_vars(AfterRead(c))

(***************************************************************************)
(* The parser applied to generated inputs.                                 *)
(***************************************************************************)
\* every byte string over alphabet of length at most n
Strings(alphabet, n) == UNION {[1..k -> alphabet] : k \in 0..n}

\* every list of at most n elements of set
Lists(set, n) == UNION {[1..k -> set] : k \in 0..n}

RawStartLines == Strings({"a", " "}, MaxStart)

HeaderLineSet ==
    { B("A: x"), B("A: y"), B("B: x"), B("A: x: y"), B("A:x"), B("A") }

HeaderLists == Lists(HeaderLineSet, MaxLines)

StartLineSet == { B("a b c"), B("a b"), B("a b c d") }

BodySet == { <<>>, B("hi"), B("A: z"), B("C: z") }

\* the lines of ls, each followed by CRLF
RECURSIVE JoinLines(_)
JoinLines(ls) == IF ls = <<>> THEN <<>> ELSE Head(ls) \o CRLF \o JoinLines(Tail(ls))

\* a message: start line, header lines, blank line, body; either terminator
\* may be missing
Message(start, t1, ls, t2, body) ==
    start \o (IF t1 THEN CRLF ELSE <<>>) \o JoinLines(ls)
          \o (IF t2 THEN CRLF ELSE <<>>) \o body

ParseMessages ==
    { Message(start, t1, ls, t2, body) :
        start \in StartLineSet, t1 \in BOOLEAN, ls \in HeaderLists,
        t2 \in BOOLEAN, body \in BodySet }

\* a call not made yet: the function and its argument
Call(f, args) == {[fn |-> f, arg |-> a] : a \in args}

\* the argument of connectionToRequest is the buffer conn.Read filled
ParseInit ==
    /\ directory = DefaultDirectory
    /\ files = NoFiles
    /\ InitConns
    /\ fnIn \in Call("parseStartline", RawStartLines)
                  \cup Call("parseHeaderLines", HeaderLists)
                  \cup Call("connectionToRequest", {ReadInto(msg) : msg \in ParseMessages})
    /\ fnOut = NoCall

ApplyParseStartline ==
    /\ fnIn.fn = "parseStartline" /\ fnOut = NoCall
    /\ fnOut' = parseStartline(fnIn.arg, ZeroRequest)
    /\ UNCHANGED <<directory, files, connVars, fnIn>>

ApplyParseHeaderLines ==
    /\ fnIn.fn = "parseHeaderLines" /\ fnOut = NoCall
    /\ fnOut' = parseHeaderLines(fnIn.arg, ZeroRequest)
    /\ UNCHANGED <<directory, files, connVars, fnIn>>

ApplyConnectionToRequest ==
    /\ fnIn.fn = "connectionToRequest" /\ fnOut = NoCall
    /\ fnOut' = parseBuffer(fnIn.arg)
    /\ UNCHANGED <<directory, files, connVars, fnIn>>

ParseNext ==
    \/ ApplyParseStartline
    \/ ApplyParseHeaderLines
    \/ ApplyConnectionToRequest

ParseSpec == ParseInit /\ [][ParseNext]_vars

(***************************************************************************)
(* The router and the response helper applied to generated inputs.         *)
(***************************************************************************)
Directories == { DefaultDirectory, B("/d") }

FileSystems ==
    { NoFiles,
      [p \in {B("/d/f")} |-> B("hi")],
      [p \in {B("/d/f"), B("/f")} |-> IF p = B("/f") THEN <<"C3", "A9">> ELSE <<>>] }

MethodSet == { B("GET"), B("POST"), B("PUT"), B("get") }

PathSet ==
    { B("/"), B("/user-agent"), B("/echo/abc"), B("/echo/"), B("/echo"),
      B("/files/f"), B("/files/g"), B("/x"), B("/user-agent/x"), B("//") }

HeaderSections ==
    { <<>>, <<B("User-Agent: curl")>>, <<B("Host: h"), B("User-Agent: t")>>,
      <<B("user-agent: t")>> }

RouteMessages ==
    { Message(m \o SP \o p \o SP \o B("HTTP/1.1"), TRUE, ls, TRUE, <<>>) :
        m \in MethodSet, p \in PathSet, ls \in HeaderSections }

Contents ==
    Strings({"a", "C3", "A9"}, MaxContent)
        \cup { Rep("a", n) : n \in {9, 10, 11, 99, 100, 110} }

\* the requests the parser returns for the route messages
RouteRequests ==
    { connectionToRequest(msg).req : msg \in {m \in RouteMessages : ~connectionToRequest(m).err} }

RouteInit ==
    /\ directory \in Directories
    /\ files \in FileSystems
    /\ InitConns
    /\ fnIn \in Call("route", RouteRequests)
                  \cup Call("responseContent", Contents \X {TypeTextPlain, TypeOctetStream})
    /\ fnOut = NoCall

\* handleConnection on a parsed request, up to the end of its switch
ApplyRoute ==
    /\ fnIn.fn = "route" /\ fnOut = NoCall
    /\ fnOut' = route(fnIn.arg)
    /\ UNCHANGED <<directory, files, connVars, fnIn>>

ApplyResponseContent ==
    /\ fnIn.fn = "responseContent" /\ fnOut = NoCall
    /\ fnOut' = responseContent(ZeroResponse, fnIn.arg[1], fnIn.arg[2])
    /\ UNCHANGED <<directory, files, connVars, fnIn>>

RouteNext ==
    \/ ApplyRoute
    \/ ApplyResponseContent

RouteSpec == RouteInit /\ [][RouteNext]_vars

(***************************************************************************)
(* Properties of the parser (ParseSpec).                                   *)
(***************************************************************************)
Applied(f) == fnIn.fn = f /\ fnOut # NoCall

Contains(s, sep) == \E i \in 1..Len(s) : OccursAt(s, sep, i)

CountOf(s, b) == Cardinality({i \in 1..Len(s) : s[i] = b})

\* the bytes of buf before its first CRLF, all of buf if it has none
StartLineOf(buf) ==
    IF Contains(buf, CRLF) THEN SubSeq(buf, 1, Index(buf, CRLF) - 1) ELSE buf

\* the start line s was split into exactly the three tokens of r
ThreeTokens(s, r) ==
    /\ r.method \o SP \o r.path \o SP \o r.version = s
    /\ CountOf(r.method, " ") = 0
    /\ CountOf(r.path, " ") = 0
    /\ CountOf(r.version, " ") = 0

\* C9: parseStartline succeeds exactly when the start line holds two spaces,
\* that is three tokens between single spaces, and then method, path and
\* version are these tokens unchanged; with any other number of tokens it
\* returns an error, connectionToRequest returns it and no request comes out.
C9_StartlineThreeTokens ==
    /\ Applied("parseStartline") =>
         /\ fnOut.err <=> CountOf(fnIn.arg, " ") # 2
         /\ ~fnOut.err => ThreeTokens(fnIn.arg, fnOut.req)
    /\ Applied("connectionToRequest") =>
         /\ fnOut.err <=> CountOf(StartLineOf(fnIn.arg), " ") # 2
         /\ ~fnOut.err => ThreeTokens(StartLineOf(fnIn.arg), fnOut.req)

\* a start line of three tokens, one of them empty, was accepted
C9_Witness ==
    /\ Applied("parseStartline")
    /\ fnIn.arg = B("a  a")
    /\ ~fnOut.err
    /\ fnOut.req.method = B("a") /\ fnOut.req.path = <<>> /\ fnOut.req.version = B("a")

\* C2: a buffer without a CRLF or without a CRLF CRLF never parses.
C2_MissingTerminatorFails ==
    Applied("connectionToRequest") =>
        (~Contains(fnIn.arg, CRLF) \/ ~Contains(fnIn.arg, CRLF \o CRLF) => fnOut.err)

\* the name and the value of a header line, cut at its first ": "
NameOf(line) == SubSeq(line, 1, Index(line, ColonSp) - 1)
ValueOf(line) == SubSeq(line, Index(line, ColonSp) + Len(ColonSp), Len(line))

\* the header map of the lines ls when each is cut at its first ": ", a later
\* line winning over an earlier one of the same name
FirstCutHeaders(ls, h) ==
    LET good == {i \in 1..Len(ls) : Contains(ls[i], ColonSp)}
    IN  /\ DOMAIN h = {NameOf(ls[i]) : i \in good}
        /\ \A i \in good :
             (\A j \in good : j > i => NameOf(ls[j]) # NameOf(ls[i]))
                 => h[NameOf(ls[i])] = ValueOf(ls[i])

\* C3: parseHeaderLines cuts every line at its first ": ": the map holds one
\* entry for every line with a ": " (also when its value holds another ": "),
\* the last line of a name wins, lines without ": " change nothing.
C3_SplitAtFirstColon ==
    Applied("parseHeaderLines") => FirstCutHeaders(fnIn.arg, fnOut.headers)

\* the bytes of buf between its first CRLF and its first CRLF CRLF
HeaderSectionOf(buf) ==
    SubSeq(buf, Index(buf, CRLF) + Len(CRLF), Index(buf, CRLF \o CRLF) - 1)

\* C4: the header map holds only pairs of lines of the header section; the
\* body and the zero padding behind the CRLF CRLF add no entry and reach
\* no value; an empty header section gives an empty map.
C4_HeadersOnlyFromHeaderSection ==
    (/\ Applied("connectionToRequest")
     /\ ~fnOut.err
     /\ Contains(fnIn.arg, CRLF \o CRLF)) =>
        LET lines == Split(HeaderSectionOf(fnIn.arg), CRLF)
            h == fnOut.req.headers
        IN  /\ \A k \in DOMAIN h :
                 /\ \E i \in 1..Len(lines) : lines[i] = k \o ColonSp \o h[k]
                 /\ CountOf(h[k], NUL) = 0
            /\ HeaderSectionOf(fnIn.arg) = <<>> => h = NoHeaders

(***************************************************************************)
(* Properties of the router and the response helper (RouteSpec).           *)
(***************************************************************************)
HasPrefix(s, p) == Len(s) >= Len(p) /\ SubSeq(s, 1, Len(p)) = p

Rest(s, p) == SubSeq(s, Len(p) + 1, Len(s))

DigitValue(b) == CHOOSE d \in 0..9 : Digit(d) = b

\* ds is the decimal representation of a natural number
IsDecimal(ds) ==
    /\ Len(ds) >= 1
    /\ \A i \in 1..Len(ds) : \E d \in 0..9 : Digit(d) = ds[i]
    /\ Len(ds) > 1 => ds[1] # "0"

\* the number a decimal representation stands for
RECURSIVE Atoi(_)
Atoi(ds) ==
    IF ds = <<>> THEN 0
    ELSE 10 * Atoi(SubSeq(ds, 1, Len(ds) - 1)) + DigitValue(ds[Len(ds)])

\* o is the content response for the bytes body of media type type
ContentResponse(o, body, type) ==
    /\ o.status = B("HTTP/1.1 200 OK")
    /\ o.content = body
    /\ DOMAIN o.headers = {B("Content-Type"), B("Content-Length")}
    /\ o.headers[B("Content-Type")] = type
    /\ IsDecimal(o.headers[B("Content-Length")])
    /\ Atoi(o.headers[B("Content-Length")]) = Len(body)

\* o carries a status line and nothing else
StatusOnly(o, status) ==
    o = [status |-> status, headers |-> NoHeaders, content |-> <<>>]

\* C1: a POST to /files/<rest> is answered 201 Created or 500 Internal
\* Server Error, never 404 Not Found.
C1_PostFilesCreatedOrError ==
    (/\ Applied("route")
     /\ fnIn.arg.method = B("POST")
     /\ HasPrefix(fnIn.arg.path, B("/files/"))) =>
        /\ fnOut.status \in { B("HTTP/1.1 201 Created"),
                              B("HTTP/1.1 500 Internal Server Error") }
        /\ fnOut.status # B("HTTP/1.1 404 Not Found")

\* C8: the response of a parsed request is that of the first rule it
\* matches: GET / is a bare 200 OK; GET /user-agent a text/plain content
\* response of the User-Agent header; GET /echo/<rest> a text/plain content
\* response of <rest>; GET /files/<rest> an application/octet-stream content
\* response of the file's bytes when the file can be read and a bare 404
\* otherwise; every other method or path a bare 404.  The status is one of
\* the two status lines, never empty.
C8_FirstMatchingRoute ==
    Applied("route") =>
        LET r == fnIn.arg
            o == fnOut
            full == directory \o B("/") \o Rest(r.path, B("/files/"))
        IN  /\ o.status \in { B("HTTP/1.1 200 OK"), B("HTTP/1.1 404 Not Found") }
            /\ IF r.method # B("GET")
                 THEN StatusOnly(o, B("HTTP/1.1 404 Not Found"))
               ELSE IF r.path = B("/")
                 THEN StatusOnly(o, B("HTTP/1.1 200 OK"))
               ELSE IF r.path = B("/user-agent")
                 THEN ContentResponse(o,
                          IF B("User-Agent") \in DOMAIN r.headers
                          THEN r.headers[B("User-Agent")] ELSE <<>>,
                          B("text/plain"))
               ELSE IF HasPrefix(r.path, B("/echo/"))
                 THEN ContentResponse(o, Rest(r.path, B("/echo/")), B("text/plain"))
               ELSE IF HasPrefix(r.path, B("/files/")) /\ full \in DOMAIN files
                 THEN ContentResponse(o, files[full], B("application/octet-stream"))
               ELSE StatusOnly(o, B("HTTP/1.1 404 Not Found"))

\* GET /files/f served the two bytes of the file /f from the default directory
C8_Witness ==
    /\ Applied("route")
    /\ fnIn.arg.method = B("GET") /\ fnIn.arg.path = B("/files/f")
    /\ directory = <<>> /\ B("/f") \in DOMAIN files
    /\ fnOut.content = <<"C3", "A9">>
    /\ fnOut.headers[B("Content-Type")] = B("application/octet-stream")

\* C10: responseContent(res, C, T) leaves status 200 OK, Content-Type T,
\* content C and Content-Length the decimal number of bytes of C; every
\* response the router builds with a Content-Length carries the byte length
\* of its content in it.
C10_ContentLengthIsByteLength ==
    /\ Applied("responseContent") =>
         ContentResponse(fnOut, fnIn.arg[1], fnIn.arg[2])
    /\ Applied("route") =>
         (B("Content-Length") \in DOMAIN fnOut.headers =>
              /\ IsDecimal(fnOut.headers[B("Content-Length")])
              /\ Atoi(fnOut.headers[B("Content-Length")]) = Len(fnOut.content))

\* a content of two characters and three bytes got Content-Length 3
C10_Witness ==
    /\ Applied("responseContent")
    /\ fnIn.arg[1] = <<"a", "C3", "A9">>
    /\ fnOut.headers[B("Content-Length")] = B("3")
    /\ fnOut.content = <<"a", "C3", "A9">>

(***************************************************************************)
(* Properties of the connection workers (Spec, FairSpec).                  *)
(***************************************************************************)
RECURSIVE Flatten(_)
Flatten(chunks) == IF chunks = <<>> THEN <<>> ELSE Head(chunks) \o Flatten(Tail(chunks))

IsPrefix(a, b) == Len(a) <= Len(b) /\ SubSeq(b, 1, Len(a)) = a

\* the orders in which a range over the keys may yield them
Orders(keys) ==
    {o \in [1..Cardinality(keys) -> keys] : \A i, j \in DOMAIN o : o[i] = o[j] => i = j}

\* the complete responses of rs, as the sequence of the writes that carry them
FullWrites(rs) ==
    { <<rs.status \o CRLF>>
        \o [i \in DOMAIN o |-> o[i] \o ColonSp \o rs.headers[o[i]] \o CRLF]
        \o <<CRLF>>
        \o (IF rs.content # <<>> THEN <<rs.content \o CRLF>> ELSE <<>>) :
      o \in Orders(DOMAIN rs.headers) }

Returned(c) == pc[c] = "closed"

\* C6: WriteToConn writes the status line, then every header once, then the
\* blank line, then the content if there is one, each with its CRLF; after
\* a write that failed it writes nothing more and the worker returns; a bare
\* 200 OK goes out as exactly "HTTP/1.1 200 OK\r\n\r\n".
C6_WriteOrder ==
    \A c \in Conns :
        /\ count[c]["serialize"] = 0 => calls[c] = <<>>
        /\ count[c]["serialize"] = 1 =>
             \E f \in FullWrites(res[c]) :
                 /\ IsPrefix(calls[c], f)
                 /\ Returned(c) /\ werr[c] = 0 => calls[c] = f
        /\ werr[c] # 0 => Len(calls[c]) = werr[c] /\ Returned(c)
        /\ werr[c] = 0 => wire[c] = Flatten(calls[c])
        /\ (/\ Returned(c)
            /\ werr[c] = 0
            /\ count[c]["serialize"] = 1
            /\ StatusOnly(res[c], B("HTTP/1.1 200 OK"))) =>
               wire[c] = B("HTTP/1.1 200 OK") \o CRLF \o CRLF

\* a content response went out in five writes, Content-Length before Content-Type
C6_Witness ==
    \E c \in Conns :
        /\ pc[c] = "closed" /\ werr[c] = 0
        /\ Len(calls[c]) = 5
        /\ calls[c][2] = B("Content-Length: 3") \o CRLF
        /\ calls[c][5] = B("abc") \o CRLF

\* C5 as stated: a closed connection has carried a complete response or no
\* byte at all.
C5_AllOrNothing ==
    \A c \in Conns :
        pc[c] = "closed" =>
            \/ wire[c] = <<>>
            \/ \E f \in FullWrites(res[c]) : wire[c] = Flatten(f)

\* C5 as amended: the bytes the peer has received are a prefix of one
\* complete response: none when the read or the parse failed, all of it
\* when the worker returned with every write done, a proper prefix when a
\* write failed.
C5_PrefixOfOneResponse ==
    \A c \in Conns :
        /\ count[c]["dispatch"] = 0 => wire[c] = <<>>
        /\ count[c]["dispatch"] = 1 =>
             \E f \in FullWrites(res[c]) :
                 /\ IsPrefix(wire[c], Flatten(f))
                 /\ Returned(c) /\ werr[c] = 0 => wire[c] = Flatten(f)
                 /\ werr[c] # 0 => wire[c] # Flatten(f)

\* a connection was closed after a failed write with part of its response out
C5_Witness ==
    \E c \in Conns :
        /\ pc[c] = "closed" /\ werr[c] = 3
        /\ wire[c] = B("HTTP/1.1 200 OK") \o CRLF \o B("Content-Type: text/plain") \o CRLF
                       \o B("Content-Length: 3") \o <<"\r">>

\* C7: a worker reads, parses, dispatches and serializes at most once; a
\* closed connection is neither read nor written again; and once its read
\* has returned the connection is eventually closed.
C7_OneCycleThenClosed ==
    /\ [](\A c \in Conns :
            \A what \in {"read", "parse", "dispatch", "serialize"} :
                count[c][what] <= 1)
    /\ [][\A c \in Conns :
            pc[c] = "closed" =>
                /\ pc'[c] = "closed"
                /\ wire'[c] = wire[c]
                /\ calls'[c] = calls[c]
                /\ count'[c] = count[c]]_vars
    /\ \A c \in Conns : (count[c]["read"] = 1) ~> (pc[c] = "closed")

\* one connection is closed after a failed write while the other worker is
\* in the middle of its response
C7_Witness ==
    /\ pc[1] = "closed" /\ werr[1] # 0
    /\ pc[2] = "write" /\ Len(calls[2]) = 2

====
